---------------------------- MODULE Spec2Model ----------------------------
(***************************************************************************)
(* Model of the Stock Info Terminal (src/app.py): the returns and risk     *)
(* analytics (calculate_cagr, calculate_annual_volatility) and the page    *)
(* script that fetches, renders and exports for one ticker symbol.         *)
(*                                                                         *)
(* Numbers.  Prices are positive integers (an integer number of price      *)
(* units).  A percentage rounded to 2 decimals is held as an integer       *)
(* number of hundredths of a percent (10.00 % is 1000).  Roots and square  *)
(* roots are taken in exact arithmetic and then rounded to the nearest     *)
(* hundredth, a tie going to the even hundredth as numpy's round does;     *)
(* the difference between this and IEEE doubles is not modelled.           *)
(***************************************************************************)
EXTENDS Integers, Sequences, FiniteSets, TLC

VARIABLES pc, query, view_type, stock_info, history, years, start_price,
          cagr_data, annual_vol, steps, info_cache, hist_cache

vars == <<pc, query, view_type, stock_info, history, years, start_price,
          cagr_data, annual_vol, steps, info_cache, hist_cache>>

(***************************************************************************)
(* Exact arithmetic on naturals beyond 32 bits: little-endian digit        *)
(* sequences in base 10^4, without leading zeros (zero is << >>).          *)
(***************************************************************************)
BigBase == 100 * 100

RECURSIVE BigOf(_)
BigOf(n) == IF n = 0 THEN << >> ELSE <<n % BigBase>> \o BigOf(n \div BigBase)

RECURSIVE BigMulC(_, _, _)
BigMulC(b, m, c) ==
    IF b = << >> THEN BigOf(c)
    ELSE LET t == Head(b) * m + c
         IN  <<t % BigBase>> \o BigMulC(Tail(b), m, t \div BigBase)

\* b * m for a small natural m (m < 200000)
BigMul(b, m) == IF m = 0 THEN << >> ELSE BigMulC(b, m, 0)

RECURSIVE BigMulPow(_, _, _)
\* b * m^h
BigMulPow(b, m, h) == IF h = 0 THEN b ELSE BigMulPow(BigMul(b, m), m, h - 1)

RECURSIVE BigLessAt(_, _, _)
BigLessAt(a, b, i) ==
    IF i = 0 THEN FALSE
    ELSE IF a[i] # b[i] THEN a[i] < b[i]
    ELSE BigLessAt(a, b, i - 1)

BigLess(a, b) ==
    IF Len(a) # Len(b) THEN Len(a) < Len(b) ELSE BigLessAt(a, b, Len(a))

BigLeq(a, b) == ~BigLess(b, a)

\* round half to even of k/2 + (exact ? 0 : a little more), k >= 0
RoundHalf(k, exact) ==
    LET m == k \div 2
    IN  IF k % 2 = 0 THEN m
        ELSE IF exact /\ m % 2 = 0 THEN m
        ELSE m + 1

RECURSIVE Gcd(_, _)
Gcd(a, b) == IF b = 0 THEN a ELSE Gcd(b, a % b)

Lcm(a, b) == (a \div Gcd(a, b)) * b

RECURSIVE SumRange(_, _, _)
\* sum of f[i] for i in lo..hi, by halving
SumRange(f, lo, hi) ==
    IF lo > hi THEN 0
    ELSE IF lo = hi THEN f[lo]
    ELSE LET mid == (lo + hi) \div 2
         IN  SumRange(f, lo, mid) + SumRange(f, mid + 1, hi)

RECURSIVE LcmRange(_, _, _)
LcmRange(f, lo, hi) ==
    IF lo > hi THEN 1
    ELSE IF lo = hi THEN f[lo]
    ELSE LET mid == (lo + hi) \div 2
         IN  Lcm(LcmRange(f, lo, mid), LcmRange(f, mid + 1, hi))


RECURSIVE BigAddC(_, _, _)
BigAddC(a, b, c) ==
    IF a = << >> /\ b = << >> THEN BigOf(c)
    ELSE LET x == IF a = << >> THEN 0 ELSE Head(a)
             y == IF b = << >> THEN 0 ELSE Head(b)
             t == x + y + c
         IN  <<t % BigBase>>
               \o BigAddC(IF a = << >> THEN a ELSE Tail(a),
                          IF b = << >> THEN b ELSE Tail(b), t \div BigBase)

BigAdd(a, b) == BigAddC(a, b, 0)

RECURSIVE PowFloor(_, _, _, _, _, _)
\* the largest k in lo..hi-1 with a * k^h + b <= c, given that lo is one
\* such k and hi is none
PowFloor(a, h, b, c, lo, hi) ==
    IF hi - lo <= 1 THEN lo
    ELSE LET mid == (lo + hi) \div 2
         IN  IF BigLeq(BigAdd(BigMulPow(a, mid, h), b), c)
             THEN PowFloor(a, h, b, c, mid, hi)
             ELSE PowFloor(a, h, b, c, lo, mid)

Abs(x) == IF x < 0 THEN 0 - x ELSE x

(***************************************************************************)
(* Values.  A history table is [cols, rows]: the column names of the       *)
(* DataFrame and its rows in date order, each row [date, adj] with the     *)
(* day number of its index entry and its adjusted close.  The other        *)
(* columns carry no value the analytics read.                              *)
(***************************************************************************)
TradingDays == 252

\* the missing value of pandas (NaN), which dropna removes
NaN == -1

IsValue(row) == row.adj # NaN

\* Python's None, an exception that propagates, and a returned dictionary
None == [tag |-> "None", items |-> << >>]

Raised == [tag |-> "raise", items |-> << >>]

Dict(items) == [tag |-> "dict", items |-> items]

\* a returned number (of hundredths of a percent)
Num(v) == [tag |-> "num", val |-> v]

NoNum == [tag |-> "None", val |-> 0]

\* a dictionary value: the string "N/A" or a rounded percentage
NA == [na |-> TRUE, val |-> 0]

Pct(v) == [na |-> FALSE, val |-> v]

\* f"{yr}Y"
Label(yr) == <<yr, "Y">>

DictPut(d, k, v) == [x \in (DOMAIN d) \cup {k} |-> IF x = k THEN v ELSE d[x]]

\* col.lower().replace(" ", "") for the column names of the model
Normalized(col) ==
    CASE col = "Adj Close" -> "adjclose"
      [] col = "adjclose"  -> "adjclose"
      [] col = "Adj_Close" -> "adj_close"
      [] col = "Close"     -> "close"
      [] col = "Open"      -> "open"
      [] col = "High"      -> "high"
      [] col = "Low"       -> "low"
      [] col = "Volume"    -> "volume"
      [] OTHER             -> col

\* next((col for col in history.columns if ... == "adjclose"), None)
HasAdjCol(h) == \E col \in h.cols : Normalized(col) = "adjclose"

RECURSIVE RowAt_strict(_, _, _, _)
\* RowAt with the row of day d itself not yet in force on day d
RowAt_strict(rows, d, lo, hi) ==
    IF lo = hi THEN lo
    ELSE LET mid == (lo + hi + 1) \div 2
         IN  IF rows[mid].date < d THEN RowAt_strict(rows, d, mid, hi)
             ELSE RowAt_strict(rows, d, lo, mid - 1)

RECURSIVE RowAt(_, _, _, _)
\* reindex(method='ffill'): the last row of rows[lo..hi] dated d or earlier
\* (rows[lo].date <= d)
RowAt(rows, d, lo, hi) ==
    IF lo = hi THEN lo
    ELSE LET mid == (lo + hi + 1) \div 2
         IN  IF rows[mid].date <= d THEN RowAt(rows, d, mid, hi)
             ELSE RowAt(rows, d, lo, mid - 1)

\* series.resample('1D').ffill(): one entry per calendar day from the first
\* date to the last, each with the value of the last row dated that day or
\* earlier
ResampleFfill(rows) ==
    IF rows = << >> THEN << >>
    ELSE LET first == rows[1].date
             n == rows[Len(rows)].date - first + 1
         IN  [k \in 1..n |->
                [date |-> first + k - 1,
                 adj  |-> rows[RowAt(rows, first + k - 1, 1, Len(rows))].adj]]

DropNa(rows) == SelectSeq(rows, IsValue)

\* history[adj_col].resample('1D').ffill().dropna()
Resampled(rows) == DropNa(ResampleFfill(rows))

\* ((end_price / start) ** (1 / yr) - 1) * 100, rounded to 2 decimals, in
\* hundredths
CagrPct(end_price, start, yr) ==
    LET target == BigMulPow(BigOf(end_price), 20000, yr)
        k == PowFloor(BigOf(start), yr, << >>, target, 0,
                      20000 * ((end_price \div start) + 1))
        exact == BigMulPow(BigOf(start), k, yr) = target
    IN  RoundHalf(k, exact) - 10000

RECURSIVE CagrLoop_one_further(_, _, _, _, _)
\* CagrLoop reading start_price.iloc[-days - 1], which raises when there are
\* exactly `days` observations
CagrLoop_one_further(end_price, sp, yrs, i, acc) ==
    IF i > Len(yrs) THEN Dict(acc)
    ELSE LET yr == yrs[i]
             days == TradingDays * yr
         IN  IF Len(sp) = days THEN Raised
             ELSE IF Len(sp) > days
             THEN CagrLoop_one_further(end_price, sp, yrs, i + 1,
                           DictPut(acc, Label(yr),
                                   Pct(CagrPct(end_price,
                                               sp[Len(sp) - days].adj, yr))))
             ELSE CagrLoop_one_further(end_price, sp, yrs, i + 1,
                           DictPut(acc, Label(yr), NA))

RECURSIVE CagrLoop(_, _, _, _, _)
\* the loop over years, from its i-th element
CagrLoop(end_price, sp, yrs, i, acc) ==
    IF i > Len(yrs) THEN Dict(acc)
    ELSE LET yr == yrs[i]
             days == TradingDays * yr
         IN  IF Len(sp) >= days
             THEN CagrLoop(end_price, sp, yrs, i + 1,
                           DictPut(acc, Label(yr),
                                   Pct(CagrPct(end_price,
                                               sp[Len(sp) - days + 1].adj, yr))))
             ELSE CagrLoop(end_price, sp, yrs, i + 1,
                           DictPut(acc, Label(yr), NA))

\* calculate_cagr counting and indexing the raw rows, without the resampling
calculate_cagr_raw_rows(h, yrs) ==
    IF ~HasAdjCol(h) \/ Len(h.rows) = 0
    THEN [ret |-> None, start_price |-> << >>]
    ELSE [ret |-> CagrLoop(h.rows[Len(h.rows)].adj, h.rows, yrs, 1, << >>),
          start_price |-> h.rows]

\* calculate_cagr without the len(history) == 0 test: iloc[-1] raises on an
\* empty series
calculate_cagr_no_empty_test(h, yrs) ==
    IF ~HasAdjCol(h) THEN [ret |-> None, start_price |-> << >>]
    ELSE IF Len(h.rows) = 0 THEN [ret |-> Raised, start_price |-> << >>]
    ELSE LET sp == Resampled(h.rows)
         IN  [ret |-> CagrLoop(h.rows[Len(h.rows)].adj, sp, yrs, 1, << >>),
              start_price |-> sp]

\* calculate_cagr: what it returns (ret) and its start_price local (<< >>
\* when the function returns before assigning it)
calculate_cagr(h, yrs) ==
    IF ~HasAdjCol(h) \/ Len(h.rows) = 0
    THEN [ret |-> None, start_price |-> << >>]
    ELSE LET end_price == h.rows[Len(h.rows)].adj
             sp == Resampled(h.rows)
         IN  [ret |-> CagrLoop(end_price, sp, yrs, 1, << >>),
              start_price |-> sp]

\* round(np.std(pct_change().dropna()) * np.sqrt(252) * 100, 2), in
\* hundredths, with ddof the divisor's offset (np.std: 0)
VolPct(rows, ddof) ==
    LET n == Len(rows)
        N == n - 1
        L == LcmRange([i \in 1..N |-> rows[i].adj], 1, N)
        R == [i \in 2..n |->
                (rows[i].adj - rows[i - 1].adj) * (L \div rows[i - 1].adj)]
        S1 == Abs(SumRange(R, 2, n))
        S2 == SumRange([i \in 2..n |-> R[i] * R[i]], 2, n)
        \* variance = (N * S2 - S1^2) / (N * (N - ddof) * L^2); k is twice
        \* the volatility in hundredths, rounded down
        C(b) == BigMul(BigMul(BigMul(BigMul(b, 4), TradingDays), BigBase), BigBase)
        den == BigMul(BigMul(BigMul(BigMul(BigOf(1), N), N - ddof), L), L)
        sq1 == C(BigMul(BigMul(BigOf(1), S1), S1))
        nS2 == C(BigMul(BigOf(S2), N))
        k == PowFloor(den, 2, sq1, nS2, 0, 200000)
    IN  RoundHalf(k, BigAdd(BigMulPow(den, k, 2), sq1) = nS2)

\* calculate_annual_volatility with the sample standard deviation (ddof = 1)
calculate_annual_volatility_sample(h) ==
    IF ~HasAdjCol(h) \/ Len(h.rows) < 2 THEN NoNum
    ELSE Num(VolPct(h.rows, 1))

\* calculate_annual_volatility testing len(history) < 1
calculate_annual_volatility_one_row(h) ==
    IF ~HasAdjCol(h) \/ Len(h.rows) < 1 THEN NoNum
    ELSE Num(VolPct(h.rows, 0))

calculate_annual_volatility(h) ==
    IF ~HasAdjCol(h) \/ Len(h.rows) < 2 THEN NoNum
    ELSE Num(VolPct(h.rows, 0))


(***************************************************************************)
(* The inputs of the analytics: bounded families of price series.          *)
(***************************************************************************)
MaxLen == 3

MaxGap == 2

MaxHorizon == 2

Prices == {100, 110}

LowPrice == CHOOSE p \in Prices : \A q \in Prices : p <= q

\* a row to come: its distance in days from the row before and its price
StepSet == [gap : 1..MaxGap, adj : Prices]

StepSeqs(n) == UNION {[1..m -> StepSet] : m \in 0..n}

RECURSIVE RowsFrom(_, _, _)
\* the rows that the steps give after a row dated `date`
RowsFrom(date, stepseq, i) ==
    IF i > Len(stepseq) THEN << >>
    ELSE <<[date |-> date + stepseq[i].gap, adj |-> stepseq[i].adj]>>
           \o RowsFrom(date + stepseq[i].gap, stepseq, i + 1)

\* `len` consecutive days at the low price after day `date`
FlatRows(date, len) == [i \in 1..len |-> [date |-> date + i, adj |-> LowPrice]]

\* every series of at most MaxLen rows
ShortSeries == {RowsFrom(0, ss, 1) : ss \in StepSeqs(MaxLen)}

\* series around the 252 * h mark: at most one row (and the gap after it), a
\* flat daily run, at most one row (and the gap before it)
LongSeries ==
    {LET head == [i \in 1..Len(hs) |-> [date |-> 1, adj |-> hs[i].adj]]
         d1 == IF hs = << >> THEN 0 ELSE hs[1].gap
     IN  head \o FlatRows(d1, len) \o RowsFrom(d1 + len, ts, 1) :
       hs \in StepSeqs(1), ts \in StepSeqs(1),
       len \in {TradingDays * h - d : h \in 1..MaxHorizon, d \in 1..2}}

ColumnSets ==
    { {"Open", "High", "Low", "Close", "Adj Close", "Volume"},
      {"Open", "High", "Low", "Close", "Volume"},
      {"open", "high", "low", "close", "adjclose", "volume"},
      {"Open", "High", "Low", "Close", "Adj_Close", "Volume"} }

YahooColumns == {"Open", "High", "Low", "Close", "Adj Close", "Volume"}

YearLists == UNION {[1..m -> 1..MaxHorizon] : m \in 1..2}

UnsetDict == [tag |-> "unset", items |-> << >>]

UnsetNum == [tag |-> "unset", val |-> 0]

NoInfo == [tag |-> "None", keys |-> {}]

NoTable == [cols |-> {}, rows |-> << >>]

(***************************************************************************)
(* The analytics called on their own: one call of each on one input.       *)
(***************************************************************************)
InitFn ==
    /\ pc = "fn"
    /\ query = ""
    /\ view_type = "Annualized"
    /\ stock_info = NoInfo
    /\ \/ history \in {[cols |-> c, rows |-> r] : c \in ColumnSets, r \in ShortSeries}
       \/ history \in {[cols |-> YahooColumns, rows |-> r] : r \in LongSeries}
    /\ years = << >>
    /\ start_price = << >>
    /\ cagr_data = UnsetDict
    /\ annual_vol = UnsetNum
    /\ steps = {}
    /\ info_cache = << >>
    /\ hist_cache = << >>

CallCalculateAnnualVolatility ==
    /\ pc = "fn"
    /\ pc' = "fn_vol"
    /\ annual_vol' = calculate_annual_volatility(history)
    /\ UNCHANGED <<query, view_type, stock_info, history, years,
                   start_price, cagr_data, steps, info_cache, hist_cache>>

CallCalculateCagr ==
    /\ pc = "fn_vol"
    /\ pc' = "fn_done"
    /\ \E ys \in YearLists :
         LET frame == calculate_cagr(history, ys)
         IN  /\ years' = ys
             /\ cagr_data' = frame.ret
             /\ start_price' = frame.start_price
    /\ UNCHANGED <<query, view_type, stock_info, history,
                   annual_vol, steps, info_cache, hist_cache>>

NextFn == CallCalculateAnnualVolatility \/ CallCalculateCagr

SpecFn == InitFn /\ [][NextFn]_vars


(***************************************************************************)
(* The page script.  Streamlit runs it from the top on every change of the *)
(* text input or of the selector; pc is its position in the run and steps  *)
(* is what the run has done so far.  An exception that nothing catches     *)
(* ends the run there ("uncaught_exception").                              *)
(***************************************************************************)
\* what the user may type, and .upper() of it
Typed == {"", "aapl", "AAPL", "msft"}

Upper(text) ==
    CASE text = "aapl" -> "AAPL"
      [] text = "msft" -> "MSFT"
      [] OTHER         -> text

ViewTypes == {"Annualized", "Cumulative", "Calendar Year"}

PageYears == <<1, 3, 5>>

\* the provider's answer to stock.info: an exception, or a dictionary with
\* these keys
InfoKeySets == SUBSET {"longName", "marketCap"}

InfoDict(keys) == [tag |-> "dict", keys |-> keys]

\* n rows on the trading days (five a week) from day 1 on, the price
\* changing every 21 rows
TradingRows(n) ==
    [i \in 1..n |->
        [date |-> i + 2 * ((i - 1) \div 5),
         adj  |-> IF ((i - 1) \div 21) % 2 = 0 THEN 100 ELSE 110]]

\* the provider's answer to stock.history(period="5y", auto_adjust=False):
\* an exception, or one of these tables
ProviderTables ==
    {NoTable, [cols |-> YahooColumns, rows |-> << >>],
     [cols |-> YahooColumns \ {"Adj Close"}, rows |-> TradingRows(3)]}
    \cup {[cols |-> YahooColumns, rows |-> TradingRows(n)] : n \in {1, 200, 901}}

\* if stock_info and "longName" in stock_info
Usable_any_record(info) == info.tag = "dict" /\ info.keys # {}

Usable(info) ==
    info.tag = "dict" /\ info.keys # {} /\ "longName" \in info.keys

\* history.empty
Empty(h) == h.rows = << >> \/ h.cols = {}

\* plot_adjusted_close_line_chart without its test of adj_col: history[None]
\* raises
plot_adjusted_close_line_chart_no_test(h) ==
    IF ~HasAdjCol(h) THEN "uncaught_exception" ELSE "line_chart"

\* what plot_adjusted_close_line_chart does: the warning, or the chart
plot_adjusted_close_line_chart(h) ==
    IF ~HasAdjCol(h) THEN "warning_no_adjclose" ELSE "line_chart"

\* what mpf.plot needs of the table
plot_candlestick_chart(h) ==
    IF {"Open", "High", "Low", "Close", "Volume"} \subseteq h.cols
    THEN "candlestick" ELSE "uncaught_exception"

\* "{:.2f}".format(value) of the Styler: a string has no format code 'f'
FormatsAsFloat(entry) == ~entry.na

\* the selector keeps its value only while the runs render it
KeptView == IF "selectbox" \in steps THEN view_type ELSE "Annualized"

Init ==
    /\ pc = "idle"
    /\ query = ""
    /\ view_type = "Annualized"
    /\ stock_info = NoInfo
    /\ history = NoTable
    /\ years = << >>
    /\ start_price = << >>
    /\ cagr_data = UnsetDict
    /\ annual_vol = UnsetNum
    /\ steps = {}
    /\ info_cache = << >>
    /\ hist_cache = << >>

\* a new run starts: the locals of the last one are gone
StartRun(q, view) ==
    /\ query' = q
    /\ view_type' = view
    /\ pc' = IF q = "" THEN "idle" ELSE "info"
    /\ stock_info' = NoInfo
    /\ history' = NoTable
    /\ years' = << >>
    /\ start_price' = << >>
    /\ cagr_data' = UnsetDict
    /\ annual_vol' = UnsetNum
    /\ steps' = {}
    /\ UNCHANGED <<info_cache, hist_cache>>

\* the user types a symbol
EnterQuery ==
    /\ pc = "idle"
    /\ \E text \in Typed : StartRun(Upper(text), KeptView)

\* the user picks a return view in the selector of the page shown
SelectView ==
    /\ pc = "idle"
    /\ "selectbox" \in steps
    /\ \E v \in ViewTypes \ {view_type} : StartRun(query, v)

\* stock_info = get_stock_info(query), and the test of it
FetchInfo ==
    /\ pc = "info"
    /\ \E info \in {NoInfo} \cup {InfoDict(k) : k \in InfoKeySets} :
         /\ query \in DOMAIN info_cache => info = info_cache[query]
         /\ stock_info' = info
         /\ info_cache' = [s \in (DOMAIN info_cache) \cup {query} |->
                              IF s = query THEN info ELSE info_cache[s]]
         /\ IF Usable(info)
            THEN /\ pc' = "metrics"
                 /\ steps' = steps \cup {"get_stock_info"}
            ELSE /\ pc' = "idle"
                 /\ steps' = steps \cup {"get_stock_info", "error_incorrect_symbol"}
    /\ UNCHANGED <<query, view_type, history, years, start_price, cagr_data,
                   annual_vol, hist_cache>>

\* the name, the description and the six metrics
RenderMetrics ==
    /\ pc = "metrics"
    /\ IF "longName" \in stock_info.keys /\ "marketCap" \in stock_info.keys
       THEN /\ pc' = "history"
            /\ steps' = steps \cup {"metrics"}
       ELSE /\ pc' = "idle"
            /\ steps' = steps \cup {"uncaught_exception"}
    /\ UNCHANGED <<query, view_type, stock_info, history, years, start_price,
                   cagr_data, annual_vol, info_cache, hist_cache>>

\* history = get_stock_history(query), and the test of history.empty
FetchHistory ==
    /\ pc = "history"
    /\ \/ /\ query \notin DOMAIN hist_cache
          /\ pc' = "idle"
          /\ steps' = steps \cup {"uncaught_exception"}
          /\ UNCHANGED <<history, hist_cache>>
       \/ \E table \in ProviderTables :
            /\ query \in DOMAIN hist_cache => table = hist_cache[query]
            /\ history' = table
            /\ hist_cache' = [s \in (DOMAIN hist_cache) \cup {query} |->
                                 IF s = query THEN table ELSE hist_cache[s]]
            /\ pc' = IF Empty(table) THEN "export" ELSE "charts"
            /\ steps' = steps \cup {"get_stock_history"}
    /\ UNCHANGED <<query, view_type, stock_info, years, start_price, cagr_data,
                   annual_vol, info_cache>>

\* the candlestick chart, the line chart and the selector
RenderCharts ==
    /\ pc = "charts"
    /\ LET candle == plot_candlestick_chart(history)
           line == plot_adjusted_close_line_chart(history)
       IN  IF candle = "uncaught_exception"
           THEN /\ pc' = "idle"
                /\ steps' = steps \cup {candle}
           ELSE IF line = "uncaught_exception"
           THEN /\ pc' = "idle"
                /\ steps' = steps \cup {candle, line}
           ELSE /\ pc' = "returns"
                /\ steps' = steps \cup {candle, line, "selectbox"}
    /\ UNCHANGED <<query, view_type, stock_info, history, years, start_price,
                   cagr_data, annual_vol, info_cache, hist_cache>>

\* the table of the view chosen
RenderReturns ==
    /\ pc = "returns"
    /\ \/ /\ view_type = "Annualized"
          /\ LET frame == calculate_cagr(history, PageYears)
                 shown == frame.ret.tag = "dict" /\ DOMAIN frame.ret.items # {}
             IN  /\ years' = PageYears
                 /\ cagr_data' = frame.ret
                 /\ start_price' = frame.start_price
                 /\ IF frame.ret.tag = "raise"
                       \/ (shown /\ \E l \in DOMAIN frame.ret.items :
                                       ~FormatsAsFloat(frame.ret.items[l]))
                    THEN /\ pc' = "idle"
                         /\ steps' = steps \cup {"uncaught_exception"}
                    ELSE /\ pc' = "volatility"
                         /\ steps' = steps \cup
                                (IF shown THEN {"annualized_table"} ELSE {})
       \/ /\ view_type # "Annualized"
          /\ pc' = "volatility"
          /\ steps' = steps \cup {"static_table"}
          /\ UNCHANGED <<years, cagr_data, start_price>>
    /\ UNCHANGED <<query, view_type, stock_info, history, annual_vol,
                   info_cache, hist_cache>>

\* the volatility heading and metric
RenderVolatility ==
    /\ pc = "volatility"
    /\ LET vol == calculate_annual_volatility(history)
       IN  /\ annual_vol' = vol
           /\ IF vol.tag = "raise"
              THEN /\ pc' = "idle"
                   /\ steps' = steps \cup {"volatility_heading", "uncaught_exception"}
              ELSE /\ pc' = "export"
                   /\ steps' = steps \cup {"volatility_heading"}
                        \cup (IF vol.tag = "num" THEN {"volatility_metric"} ELSE {})
    /\ UNCHANGED <<query, view_type, stock_info, history, years, start_price,
                   cagr_data, info_cache, hist_cache>>

\* the export section: export_csv and export_pdf of the metadata
Export ==
    /\ pc = "export"
    /\ pc' = "idle"
    /\ steps' = steps \cup {"export_csv", "export_pdf"}
    /\ UNCHANGED <<query, view_type, stock_info, history, years, start_price,
                   cagr_data, annual_vol, info_cache, hist_cache>>

Next ==
    \/ EnterQuery
    \/ SelectView
    \/ FetchInfo
    \/ RenderMetrics
    \/ FetchHistory
    \/ RenderCharts
    \/ RenderReturns
    \/ RenderVolatility
    \/ Export

Spec == Init /\ [][Next]_vars

(***************************************************************************)
(* Properties of the analytics (under SpecFn).                             *)
(***************************************************************************)
CagrCalled == cagr_data.tag # "unset"

VolCalled == annual_vol.tag # "unset"

Rows == history.rows

LastDate == Rows[Len(Rows)].date

\* the number of calendar days from the first row to the last
ResampledCount == IF Rows = << >> THEN 0 ELSE LastDate - Rows[1].date + 1

\* the adjusted close in force on day d: that of the last row dated d or earlier
AdjOn(d) ==
    LET i == CHOOSE j \in 1..Len(Rows) :
                 /\ Rows[j].date <= d
                 /\ j = Len(Rows) \/ Rows[j + 1].date > d
    IN  Rows[i].adj

\* v hundredths of a percent is ((e / s)^(1 / h) - 1) * 100 to the nearest
\* hundredth
IsNearestCagr(v, e, s, h) ==
    LET target == BigMulPow(BigOf(e), 20000, h)
    IN  /\ BigLeq(BigMulPow(BigOf(s), 20000 + 2 * v - 1, h), target)
        /\ BigLeq(target, BigMulPow(BigOf(s), 20000 + 2 * v + 1, h))

HasEntry(yr) ==
    /\ cagr_data.tag = "dict"
    /\ Label(yr) \in DOMAIN cagr_data.items

Entry(yr) == cagr_data.items[Label(yr)]

\* C1 as stated: for every price series and every horizon h passed to
\* calculate_cagr, fewer than 252 * h resampled daily observations make the
\* result map "<h>Y" to "N/A".
C1_AsStated ==
    (CagrCalled /\ HasAdjCol(history)) =>
        \A i \in DOMAIN years :
            ResampledCount < TradingDays * years[i] =>
                HasEntry(years[i]) /\ Entry(years[i]).na

\* C1 amended: for every non-empty price series and every horizon h passed to
\* calculate_cagr, the result maps "<h>Y" to "N/A", and not to a number,
\* exactly when the resampled daily count (not the raw row count) is below
\* 252 * h.
C1_NotAvailableBelowResampledCount ==
    (CagrCalled /\ HasAdjCol(history) /\ Rows # << >>) =>
        \A i \in DOMAIN years :
            /\ HasEntry(years[i])
            /\ Entry(years[i]).na <=> ResampledCount < TradingDays * years[i]

C1_Witness ==
    /\ CagrCalled /\ HasAdjCol(history) /\ Len(Rows) > MaxLen
    /\ \E i \in DOMAIN years :
         /\ ResampledCount < TradingDays * years[i]
         /\ HasEntry(years[i]) /\ Entry(years[i]).na
    /\ \E i \in DOMAIN years :
         /\ Len(Rows) < TradingDays * years[i]
         /\ ResampledCount >= TradingDays * years[i]
         /\ HasEntry(years[i]) /\ ~Entry(years[i]).na

\* the 252 values at 100 followed by one value at 110 of the scenario
ScenarioRows ==
    [i \in 1..(TradingDays + 1) |->
        [date |-> i, adj |-> IF i <= TradingDays THEN 100 ELSE 110]]

\* C2 as stated: with at least 252 * h resampled observations the result for
\* h is ((end / start)^(1 / h) - 1) * 100 rounded to 2 decimals, start being
\* the resampled observation 252 * h observations before the last one.
C2_AsStated ==
    (CagrCalled /\ HasAdjCol(history) /\ Rows # << >>) =>
        \A i \in DOMAIN years :
            ResampledCount >= TradingDays * years[i] =>
                /\ HasEntry(years[i]) /\ ~Entry(years[i]).na
                /\ ResampledCount > TradingDays * years[i] =>
                     IsNearestCagr(Entry(years[i]).val, Rows[Len(Rows)].adj,
                                   AdjOn(LastDate - TradingDays * years[i]),
                                   years[i])

\* C2 amended: with at least 252 * h resampled observations the result for h
\* is ((end / start)^(1 / h) - 1) * 100 rounded to 2 decimals, start being
\* the 252 * h-th resampled observation counted back from the last one with
\* the last one counted as the first (252 * h - 1 observations before it);
\* 252 values at 100 followed by one at 110 give 10.00 for horizon 1.
C2_CagrFromObservation252hFromEnd ==
    (CagrCalled /\ HasAdjCol(history) /\ Rows # << >>) =>
        /\ \A i \in DOMAIN years :
             ResampledCount >= TradingDays * years[i] =>
                 /\ HasEntry(years[i]) /\ ~Entry(years[i]).na
                 /\ IsNearestCagr(Entry(years[i]).val, Rows[Len(Rows)].adj,
                                  AdjOn(LastDate - TradingDays * years[i] + 1),
                                  years[i])
        /\ (Rows = ScenarioRows /\ \E i \in DOMAIN years : years[i] = 1) =>
               HasEntry(1) /\ Entry(1) = Pct(1000)

C2_Witness ==
    /\ CagrCalled /\ HasAdjCol(history) /\ Rows # << >>
    /\ \E i \in DOMAIN years :
         /\ years[i] > 1
         /\ ResampledCount > TradingDays * years[i]
         /\ AdjOn(LastDate - TradingDays * years[i])
              # AdjOn(LastDate - TradingDays * years[i] + 1)
         /\ HasEntry(years[i]) /\ ~Entry(years[i]).na
         /\ Entry(years[i]).val # 0

\* v hundredths of a percent is the population standard deviation of the
\* day-over-day returns of the rows, times sqrt(252), times 100, to the
\* nearest hundredth.  With r[i] = R[i] / L the variance is
\* (N * sum R^2 - (sum R)^2) / (N^2 * L^2).
IsNearestPopulationVol(v) ==
    LET n == Len(Rows)
        N == n - 1
        L == LcmRange([i \in 1..N |-> Rows[i].adj], 1, N)
        R == [i \in 2..n |->
                ((Rows[i].adj * L) \div Rows[i - 1].adj) - L]
        S1 == Abs(SumRange(R, 2, n))
        S2 == SumRange([i \in 2..n |-> R[i] * R[i]], 2, n)
        Scale(b) == BigMul(BigMul(BigMul(b, 4 * TradingDays), BigBase), BigBase)
        var == Scale(BigMul(BigOf(S2), N))
        sq(k) == BigAdd(BigMul(BigMul(BigMul(BigMul(BigMul(BigOf(k), k), N), N),
                                      L), L),
                        Scale(BigMul(BigOf(S1), S1)))
    IN  /\ v >= 0
        /\ v = 0 \/ BigLeq(sq(2 * v - 1), var)
        /\ BigLeq(var, sq(2 * v + 1))

\* C3: on a series of at least 2 observations calculate_annual_volatility
\* returns the population standard deviation (divisor N) of the day-over-day
\* returns of the raw rows, the first row's undefined return dropped, times
\* sqrt(252) times 100, rounded to 2 decimals.
C3_PopulationVolatilityOfRawRows ==
    (VolCalled /\ HasAdjCol(history) /\ Len(Rows) >= 2) =>
        /\ annual_vol.tag = "num"
        /\ IsNearestPopulationVol(annual_vol.val)

C3_Witness ==
    /\ VolCalled /\ HasAdjCol(history)
    /\ Len(Rows) = 3
    /\ ResampledCount > Len(Rows)
    /\ Rows[1].adj # Rows[2].adj /\ Rows[2].adj = Rows[3].adj
    /\ annual_vol.tag = "num" /\ annual_vol.val > 0

\* C8: on an empty series calculate_cagr (for a non-empty list of horizons)
\* and calculate_annual_volatility return None without raising, and so does
\* calculate_cagr on a table without a resolvable adjusted-close column.
C8_EmptyOrColumnlessGivesNone ==
    /\ (CagrCalled /\ years # << >> /\ (Rows = << >> \/ ~HasAdjCol(history)))
          => cagr_data = None
    /\ (VolCalled /\ Rows = << >>) => annual_vol = NoNum

C8_Witness ==
    /\ CagrCalled /\ VolCalled /\ years # << >>
    /\ Rows = << >> /\ HasAdjCol(history)
    /\ cagr_data = None /\ annual_vol = NoNum

\* C9: calculate_annual_volatility returns None on a series of fewer than 2
\* observations and a number on a series of 2 or more.
C9_VolatilityNeedsTwoObservations ==
    VolCalled =>
        /\ Len(Rows) < 2 => annual_vol = NoNum
        /\ (Len(Rows) >= 2 /\ HasAdjCol(history)) => annual_vol.tag = "num"

C9_Witness ==
    /\ VolCalled /\ HasAdjCol(history) /\ Len(Rows) = 1 /\ annual_vol = NoNum

IsDaily(rows) == \A i \in 2..Len(rows) : rows[i].date = rows[i - 1].date + 1

\* C10: for a series with one observation on every calendar day from its
\* first date to its last, the resampled, forward-filled series with the
\* valueless days dropped is the series itself: same dates, same values,
\* same length.
C10_ResampleOfDailySeriesIsNoOp ==
    (CagrCalled /\ HasAdjCol(history) /\ Rows # << >> /\ IsDaily(Rows)) =>
        /\ start_price = Rows
        /\ Len(start_price) = Len(Rows)

C10_Witness ==
    /\ CagrCalled /\ HasAdjCol(history) /\ IsDaily(Rows)
    /\ Len(Rows) > TradingDays
    /\ Rows[1].adj # Rows[2].adj
    /\ start_price = Rows


(***************************************************************************)
(* Properties of the page script (under Spec).                             *)
(***************************************************************************)
RunOver == pc = "idle" /\ "get_stock_info" \in steps

MarkedNotAvailable ==
    /\ cagr_data.tag = "dict"
    /\ \E l \in DOMAIN cagr_data.items : cagr_data.items[l].na

\* C4: a run in which calculate_cagr marks a horizon "N/A" renders the
\* Annualized table and goes on to the volatility and export sections,
\* without an uncaught exception.
C4_NotAvailableStaysInTheTable ==
    (RunOver /\ MarkedNotAvailable) =>
        /\ "uncaught_exception" \notin steps
        /\ {"annualized_table", "volatility_heading", "export_csv", "export_pdf"}
             \subseteq steps

\* C5: a run with a non-empty query never ends in an uncaught exception,
\* whatever the provider returns or fails to return.
C5_NoUncaughtException == "uncaught_exception" \notin steps

\* what runs only for a usable metadata record
LaterSteps ==
    {"metrics", "get_stock_history", "candlestick", "line_chart",
     "warning_no_adjclose", "selectbox", "annualized_table", "static_table",
     "volatility_heading", "volatility_metric", "export_csv", "export_pdf"}

\* C6: when get_stock_info returns nothing usable (None, or a record without
\* "longName") the run shows the "incorrect symbol" error and ends without
\* fetching the history or running any chart, CAGR, volatility or export
\* step; these steps run only after a record with "longName" was obtained.
C6_UnusableMetadataStopsTheRun ==
    /\ ("get_stock_info" \in steps /\ ~("longName" \in stock_info.keys)) =>
          /\ "error_incorrect_symbol" \in steps
          /\ steps \cap LaterSteps = {}
          /\ "uncaught_exception" \notin steps
          /\ pc = "idle"
          /\ history = NoTable /\ cagr_data = UnsetDict /\ annual_vol = UnsetNum
    /\ (steps \cap LaterSteps # {} \/ pc \notin {"idle", "info"}) =>
          /\ stock_info.tag = "dict" /\ "longName" \in stock_info.keys
          /\ "error_incorrect_symbol" \notin steps

C6_Witness ==
    /\ RunOver
    /\ stock_info.tag = "dict" /\ stock_info.keys = {"marketCap"}
    /\ "error_incorrect_symbol" \in steps
    /\ steps \cap LaterSteps = {}
    /\ DOMAIN hist_cache # {}

NoAdjCloseRun ==
    /\ "get_stock_history" \in steps
    /\ ~Empty(history)
    /\ ~HasAdjCol(history)

\* C7: in a run whose non-empty history has no column resolvable as adjusted
\* close, the line chart gives its warning and returns, calculate_cagr and
\* calculate_annual_volatility return None without raising, and the run goes
\* on to the selector, the volatility heading and the export.
C7_MissingAdjCloseIsLocal ==
    NoAdjCloseRun =>
        /\ "uncaught_exception" \notin steps
        /\ pc \in {"charts", "returns", "volatility", "export", "idle"}
        /\ pc # "charts" =>
              /\ {"warning_no_adjclose", "selectbox"} \subseteq steps
              /\ "line_chart" \notin steps
        /\ pc \in {"volatility", "export", "idle"} =>
              /\ view_type = "Annualized" => cagr_data = None
              /\ "annualized_table" \notin steps
        /\ pc \in {"export", "idle"} =>
              /\ annual_vol = NoNum
              /\ "volatility_heading" \in steps
              /\ "volatility_metric" \notin steps
        /\ pc = "idle" => {"export_csv", "export_pdf"} \subseteq steps

C7_Witness ==
    /\ NoAdjCloseRun /\ pc = "idle"
    /\ view_type = "Annualized"
    /\ cagr_data = None /\ annual_vol = NoNum
    /\ {"warning_no_adjclose", "selectbox", "volatility_heading", "export_csv"}
          \subseteq steps

=============================================================================
